---- MODULE Spec2Model ----
(***************************************************************************)
(* Model of src/query-server.js: a query-serving node that answers         *)
(* getOrder(orderId) from a local file cache, falls back to a stub         *)
(* "database" on a miss, writes the result to the cache and publishes it   *)
(* on NATS under cache.orders.<orderId>; a wildcard subscription           *)
(* cache.orders.> writes every received message into the local cache.      *)
(*                                                                         *)
(* Representation.  A JavaScript string is modelled as the sequence of its *)
(* '.'-separated segments ("7.1" is <<"7","1">>), so that template         *)
(* concatenation and String.split('.') are computed, not assumed.  A JSON  *)
(* document (file content, message payload) is a sequence of tokens; a     *)
(* JavaScript value is a tagged record.  JSON.stringify and JSON.parse     *)
(* convert between the two.                                                *)
(***************************************************************************)
EXTENDS Integers, Sequences, FiniteSets, TLC

\* ------------------------------------------------------------------ bounds
\* Number of external events in one behaviour: getOrder requests, messages
\* published by clients other than the nodes, and faults of the environment
\* (a failed start, a closed connection, a failed write in the callback).
MaxEvents == 2

\* ------------------------------------------------------- JavaScript values
Undefined == [t |-> "undefined"]
Null == [t |-> "null"]
Num(n) == [t |-> "number", n |-> n]
Str(s) == [t |-> "string", s |-> s]
Obj(props) == [t |-> "object", props |-> props]
Prop(k, v) == [k |-> k, v |-> v]

\* The thrown Error of a rejected resolver / an exception leaving a function.
Thrown(what) == [t |-> "error", what |-> what]

\* JavaScript ToBoolean on the values above (the test `if (cachedOrder)`).
Truthy(v) ==
  CASE v.t = "undefined" -> FALSE
    [] v.t = "null" -> FALSE
    [] v.t = "number" -> v.n # 0
    [] v.t = "string" -> v.s # <<"">>
    [] OTHER -> TRUE

\* Property read obj.name: undefined when the property is absent or the
\* value is no object.
RECURSIVE GetProp(_, _, _)
GetProp(props, name, i) ==
  IF i = 0 THEN Undefined
  ELSE IF props[i].k = name THEN props[i].v
  ELSE GetProp(props, name, i - 1)

Get(v, name) ==
  IF v.t = "object" THEN GetProp(v.props, name, Len(v.props)) ELSE Undefined

\* Property write obj[name] = val: replaces in place, else appends.
SetProp(props, name, val) ==
  IF \E i \in 1..Len(props) : props[i].k = name
  THEN [i \in 1..Len(props) |->
          IF props[i].k = name THEN Prop(name, val) ELSE props[i]]
  ELSE Append(props, Prop(name, val))

\* The fields of type Order in the GraphQL schema.
OrderFields == {"id", "customer", "product", "quantity", "status"}

\* ------------------------------------------------------------ JSON text
TLBrace == [tok |-> "{"]
TRBrace == [tok |-> "}"]
TColon == [tok |-> ":"]
TComma == [tok |-> ","]
TSpace == [tok |-> "ws"]
TNull == [tok |-> "null"]
TNum(n) == [tok |-> "num", n |-> n]
TStr(s) == [tok |-> "str", s |-> s]
\* A character sequence that is no JSON token.
TJunk == [tok |-> "junk"]

IsScalarTok(tk) == tk.tok \in {"null", "num", "str"}

ScalarOfTok(tk) ==
  CASE tk.tok = "null" -> Null
    [] tk.tok = "num" -> Num(tk.n)
    [] OTHER -> Str(tk.s)

TokOfScalar(v) ==
  CASE v.t = "null" -> TNull
    [] v.t = "number" -> TNum(v.n)
    [] OTHER -> TStr(v.s)

\* JSON.stringify(value, null, indent).  Properties whose value is undefined
\* are omitted; with a non-zero indent white space follows '{' and ',' and
\* precedes '}', and a space follows ':'.
RECURSIVE StringifyProps(_, _, _, _)
StringifyProps(props, i, indent, first) ==
  IF i > Len(props) THEN <<>>
  ELSE IF props[i].v.t = "undefined"
       THEN StringifyProps(props, i + 1, indent, first)
       ELSE (IF first THEN <<>> ELSE <<TComma>>)
            \o (IF indent > 0 THEN <<TSpace>> ELSE <<>>)
            \o <<TStr(<<props[i].k>>), TColon>>
            \o (IF indent > 0 THEN <<TSpace>> ELSE <<>>)
            \o <<TokOfScalar(props[i].v)>>
            \o StringifyProps(props, i + 1, indent, FALSE)

Stringify(v, indent) ==
  IF v.t = "object"
  THEN LET body == StringifyProps(v.props, 1, indent, TRUE)
       IN  IF body = <<>> THEN <<TLBrace, TRBrace>>
           ELSE <<TLBrace>> \o body
                \o (IF indent > 0 THEN <<TSpace>> ELSE <<>>) \o <<TRBrace>>
  ELSE <<TokOfScalar(v)>>

\* JSON.parse(text): the value, or a thrown SyntaxError.  White space between
\* tokens is skipped; objects are flat (scalar-valued), as every document of
\* the model is.
IsNotSpace(tk) == tk.tok # "ws"

RECURSIVE ParseMembers(_, _, _)
ParseMembers(toks, i, props) ==
  IF i + 3 > Len(toks) THEN Thrown("SyntaxError")
  ELSE IF ~(toks[i].tok = "str" /\ toks[i + 1].tok = ":"
            /\ IsScalarTok(toks[i + 2]))
       THEN Thrown("SyntaxError")
       ELSE LET props2 == SetProp(props, toks[i].s[1], ScalarOfTok(toks[i + 2]))
            IN  IF toks[i + 3].tok = "}"
                THEN (IF i + 3 = Len(toks) THEN Obj(props2)
                      ELSE Thrown("SyntaxError"))
                ELSE IF toks[i + 3].tok = ","
                     THEN ParseMembers(toks, i + 4, props2)
                     ELSE Thrown("SyntaxError")

Parse(text) ==
  LET toks == SelectSeq(text, IsNotSpace)
  IN  IF toks = <<>> THEN Thrown("SyntaxError")
      ELSE IF Len(toks) = 1
           THEN (IF IsScalarTok(toks[1]) THEN ScalarOfTok(toks[1])
                 ELSE Thrown("SyntaxError"))
           ELSE IF toks[1].tok # "{" THEN Thrown("SyntaxError")
           ELSE IF Len(toks) = 2
                THEN (IF toks[2].tok = "}" THEN Obj(<<>>)
                      ELSE Thrown("SyntaxError"))
                ELSE ParseMembers(toks, 2, <<>>)

\* StringCodec: encode is the UTF-8 bytes of a string, decode the string of
\* the bytes.
Encode(text) == [utf8 |-> text]
Decode(bytes) == bytes.utf8

\* ---------------------------------------------------- the local file cache
\* A node's file system under /tmp/cache/orders: whether the directory
\* exists, and the files in it (file name -> content).
NoFiles == [f \in {} |-> <<>>]
EmptyFs == [dir |-> FALSE, files |-> NoFiles]

\* ensureCacheDir: creates the directory when it is missing.
EnsureCacheDir(fsn) == [fsn EXCEPT !.dir = TRUE]

\* path.join(cacheDir, `${orderId}.json`): the file name inside the directory.
FilePath(orderId) == orderId \o <<"json">>

\* Outcomes of the file-system calls that the environment decides.
ReadFaults == {"none", "EACCES", "EIO"}

\* A store write that merges into the record already on disk instead of
\* replacing it.
RECURSIVE MergeProps(_, _, _)
MergeProps(old, new, i) ==
  IF i > Len(new) THEN old
  ELSE MergeProps(IF new[i].v.t = "undefined" THEN old
                  ELSE SetProp(old, new[i].k, new[i].v),
                  new, i + 1)

MergeOnto(files, filePath, data) ==
  IF filePath \in DOMAIN files /\ data.t = "object"
     /\ Parse(files[filePath]).t = "object"
  THEN Obj(MergeProps(Parse(files[filePath]).props, data.props, 1))
  ELSE data

WriteOrderToFileMerging(fsn, orderId, data, fault) ==
  IF fault
  THEN [threw |-> TRUE, fs |-> [fsn EXCEPT !.dir = TRUE]]
  ELSE [threw |-> FALSE,
        fs |-> [dir |-> TRUE,
                files |->
                  [f \in DOMAIN fsn.files \cup {orderId \o <<"json">>} |->
                     IF f = orderId \o <<"json">>
                     THEN Stringify(
                            MergeOnto(fsn.files, orderId \o <<"json">>, data),
                            2)
                     ELSE fsn.files[f]]]]

\* A write that is cut off before the last token of the text is in the file.
WriteFileTorn(files, filePath, text) ==
  [f \in DOMAIN files \cup {filePath} |->
     IF f = filePath THEN SubSeq(text, 1, Len(text) - 1) ELSE files[f]]

WriteFile(files, filePath, text) ==
  [f \in DOMAIN files \cup {filePath} |->
     IF f = filePath THEN text ELSE files[f]]

\* writeOrderToFile(orderId, data); `fault` makes fs.writeFileSync throw.
WriteOrderToFile(fsn, orderId, data, fault) ==
  IF fault
  THEN [threw |-> TRUE, fs |-> EnsureCacheDir(fsn)]
  ELSE [threw |-> FALSE,
        fs |-> [dir |-> TRUE,
                files |-> WriteFile(fsn.files, FilePath(orderId),
                                    Stringify(data, 2))]]

\* readOrderFromFile(orderId).  fs.existsSync answers false when the file is
\* missing and also when the path cannot be examined ("EACCES");
\* fs.readFileSync throws on "EIO"; JSON.parse throws on undecodable content.
ReadOrderFromFile(fsn, orderId, fault) ==
  IF FilePath(orderId) \in DOMAIN fsn.files /\ fault # "EACCES"
  THEN [fs |-> EnsureCacheDir(fsn),
        out |-> IF fault = "EIO" THEN Thrown("EIO")
                ELSE Parse(fsn.files[FilePath(orderId)])]
  ELSE [fs |-> EnsureCacheDir(fsn), out |-> Null]

\* ------------------------------------------------------------------ the bus
Msg(subject, data) == [subject |-> subject, data |-> data]

\* `cache.orders.${orderId}`
Subject(orderId) == <<"cache", "orders">> \o orderId

\* msg.subject.split('.')[2]
SubjectOrderId(subject) == <<subject[3]>>

\* The "database": the order the resolver builds on a miss.
OrderFromDB(orderId) ==
  Obj(<<Prop("id", Str(orderId)),
        Prop("customer", Str(<<"John Doe">>)),
        Prop("product", Str(<<"Laptop">>)),
        Prop("quantity", Num(2)),
        Prop("status", Str(<<"shipped">>))>>)

\* ------------------------------------------------------------- the resolver
\* resolvers.Query.getOrder for one request, as a function of the node's
\* file system, of whether its NATS connection is closed, and of the outcomes
\* of the file-system calls.  The body has no await: it runs to completion
\* without interleaving with any other callback of the node.  Result:
\*   fs      the file system afterwards
\*   sent    the messages handed to nc.publish, in order
\*   ret     the value returned, or the error the request is rejected with
\*   cached  what readOrderFromFile returned (or threw)
\*   fetched how many times the database was consulted
\*   steps   the protocol steps taken, in order
\* nc.publish throws when the connection is closed; nothing in the resolver
\* catches, so every exception rejects the request.

\* From nc.publish on: the order is on disk (wr).
GetOrderPublish(wr, closed, orderId, cachedOrder, orderFromDB) ==
  IF closed
  THEN [fs |-> wr.fs, sent |-> <<>>, ret |-> Thrown("CONNECTION_CLOSED"),
        cached |-> cachedOrder, fetched |-> 1,
        steps |-> <<"CHECK_LOCAL", "FETCH_ORIGIN", "PERSIST", "PUBLISH">>]
  ELSE [fs |-> wr.fs,
        sent |-> <<Msg(Subject(orderId), Encode(Stringify(orderFromDB, 0)))>>,
        ret |-> orderFromDB, cached |-> cachedOrder, fetched |-> 1,
        steps |-> <<"CHECK_LOCAL", "FETCH_ORIGIN", "PERSIST", "PUBLISH",
                    "DONE">>]

\* A resolver that publishes before it looks at the outcome of the write.
GetOrderPublishFirst(wr, closed, orderId, cachedOrder, orderFromDB) ==
  IF wr.threw
  THEN [fs |-> wr.fs,
        sent |-> IF closed THEN <<>>
                 ELSE <<Msg(Subject(orderId),
                            Encode(Stringify(orderFromDB, 0)))>>,
        ret |-> Thrown("EACCES"), cached |-> cachedOrder, fetched |-> 1,
        steps |-> <<"CHECK_LOCAL", "FETCH_ORIGIN", "PUBLISH", "PERSIST">>]
  ELSE GetOrderPublish(wr, closed, orderId, cachedOrder, orderFromDB)

\* From writeOrderToFile on: the cache missed and the order was fetched.
GetOrderPersist(wr, closed, orderId, cachedOrder, orderFromDB) ==
  IF wr.threw
  THEN [fs |-> wr.fs, sent |-> <<>>, ret |-> Thrown("EACCES"),
        cached |-> cachedOrder, fetched |-> 1,
        steps |-> <<"CHECK_LOCAL", "FETCH_ORIGIN", "PERSIST">>]
  ELSE GetOrderPublish(wr, closed, orderId, cachedOrder, orderFromDB)

\* A resolver whose write has not reached the disk when it returns: the
\* next request still finds the file system as this one found it.
GetOrderCachedWriteDeferred(rd, closed, orderId, wfault) ==
  IF rd.out.t = "error"
  THEN [fs |-> rd.fs, sent |-> <<>>, ret |-> rd.out, cached |-> rd.out,
        fetched |-> 0, steps |-> <<"CHECK_LOCAL">>]
  ELSE IF Truthy(rd.out)
  THEN [fs |-> rd.fs, sent |-> <<>>, ret |-> rd.out, cached |-> rd.out,
        fetched |-> 0, steps |-> <<"CHECK_LOCAL", "DONE">>]
  ELSE [GetOrderPersist(
          WriteOrderToFile(rd.fs, orderId, OrderFromDB(orderId), wfault),
          closed, orderId, rd.out, OrderFromDB(orderId))
        EXCEPT !.fs = rd.fs]

\* A resolver that announces the order on the hit path as well.
GetOrderCachedRepublish(rd, closed, orderId, wfault) ==
  IF rd.out.t = "error"
  THEN [fs |-> rd.fs, sent |-> <<>>, ret |-> rd.out, cached |-> rd.out,
        fetched |-> 0, steps |-> <<"CHECK_LOCAL">>]
  ELSE IF Truthy(rd.out)
  THEN [fs |-> rd.fs,
        sent |-> IF closed THEN <<>>
                 ELSE <<Msg(Subject(orderId), Encode(Stringify(rd.out, 0)))>>,
        ret |-> rd.out, cached |-> rd.out,
        fetched |-> 0, steps |-> <<"CHECK_LOCAL", "DONE">>]
  ELSE GetOrderPersist(
         WriteOrderToFile(rd.fs, orderId, OrderFromDB(orderId), wfault),
         closed, orderId, rd.out, OrderFromDB(orderId))

\* From `if (cachedOrder)` on: rd is the outcome of readOrderFromFile.
GetOrderCached(rd, closed, orderId, wfault) ==
  IF rd.out.t = "error"
  THEN [fs |-> rd.fs, sent |-> <<>>, ret |-> rd.out, cached |-> rd.out,
        fetched |-> 0, steps |-> <<"CHECK_LOCAL">>]
  ELSE IF Truthy(rd.out)
  THEN [fs |-> rd.fs, sent |-> <<>>, ret |-> rd.out, cached |-> rd.out,
        fetched |-> 0, steps |-> <<"CHECK_LOCAL", "DONE">>]
  ELSE GetOrderPersist(
         WriteOrderToFile(rd.fs, orderId, OrderFromDB(orderId), wfault),
         closed, orderId, rd.out, OrderFromDB(orderId))

GetOrder(fsn, closed, orderId, rfault, wfault) ==
  GetOrderCached(ReadOrderFromFile(fsn, orderId, rfault), closed, orderId,
                 wfault)

\* ------------------------------------------------- the subscription callback
\* The callback of nc.subscribe('cache.orders.>') for one delivered message.
\* Result: the file system afterwards, the orderId taken from the subject, and
\* `threw`: whether an exception left the callback (the callback catches
\* nothing: JSON.parse and fs.writeFileSync throw straight through it).

\* From writeOrderToFile(orderId, JSON.parse(decodedMessage)) on.
OnMessageWrite(fsn, orderId, parsed, wfault) ==
  IF parsed.t = "error"
  THEN [fs |-> fsn, orderId |-> orderId, threw |-> TRUE]
  ELSE LET wr == WriteOrderToFile(fsn, orderId, parsed, wfault)
       IN  [fs |-> wr.fs, orderId |-> orderId, threw |-> wr.threw]

OnMessage(fsn, msg, wfault) ==
  OnMessageWrite(fsn, SubjectOrderId(msg.subject), Parse(Decode(msg.data)),
                 wfault)

\* The steps of a lookup include the store write / the publish.
IsInPersist(steps) == \E i \in 1..Len(steps) : steps[i] = "PERSIST"
IsInPublish(steps) == \E i \in 1..Len(steps) : steps[i] = "PUBLISH"

\* ------------------------------------------------------------------- state
Nodes == {"A", "B"}

\* Publishers on the bus: the nodes, and one client that is not a node.
Publishers == Nodes \cup {"ext"}

\* The orderIds requested: "7", "42", and "7.1", which contains a '.'.
OrderIds == {<<"7">>, <<"42">>, <<"7", "1">>}

\* What the foreign client publishes, all on cache.orders.7: text that is no
\* JSON, the documents null and 0, and an order with only an id, "9".
ForeignSubjects == {<<"cache", "orders", "7">>}
ForeignPayloads ==
  {<<TJunk>>, <<TNull>>, <<TNum(0)>>,
   <<TLBrace, TStr(<<"id">>), TColon, TStr(<<"9">>), TRBrace>>}

VARIABLES
  phase,      \* phase[n]: how far startApolloServer has come on node n
  fs,         \* fs[n]: the cache directory of node n
  closed,     \* closed[n]: the NATS connection of n is closed
  subAlive,   \* subAlive[n]: the subscription of n still dispatches messages
  chan,       \* chan[<<p, n>>]: messages of publisher p in flight to node n
  published,  \* history: <<n, orderId>> for every message node n published
  nEvents,    \* number of external events so far
  last        \* the most recent run of the resolver or of the callback

vars == <<phase, fs, closed, subAlive, chan, published, nEvents, last>>

\* The subscription of n is registered and receives what is published now.
Subscribed(n) ==
  phase[n] \in {"subscribed", "serving", "broken"} /\ ~closed[n] /\ subAlive[n]

\* The server fans a published message out to every current subscriber.
FanOut(ch, p, msgs) ==
  [c \in DOMAIN ch |->
     IF c[1] = p /\ Subscribed(c[2]) THEN ch[c] \o msgs ELSE ch[c]]

\* The orderId a message was published for: the subject behind cache.orders.
PublishedFor(msg) == SubSeq(msg.subject, 3, Len(msg.subject))

Init ==
  /\ phase = [n \in Nodes |-> "starting"]
  /\ fs = [n \in Nodes |-> EmptyFs]
  /\ closed = [n \in Nodes |-> FALSE]
  /\ subAlive = [n \in Nodes |-> TRUE]
  /\ chan = [c \in Publishers \X Nodes |-> <<>>]
  /\ published = {}
  /\ nEvents = 0
  /\ last = [op |-> "none"]

\* Whether the environment may still produce a fault: the outcomes of a call
\* that can fail.
Outcomes == IF nEvents < MaxEvents THEN BOOLEAN ELSE {TRUE}

\* connectNATS: connect, then subscribe; a failed connect rejects
\* startApolloServer, whose catch only logs.
ConnectNATS(n) ==
  /\ phase[n] = "starting"
  /\ \E ok \in Outcomes :
       /\ phase' = [phase EXCEPT ![n] = IF ok THEN "subscribed" ELSE "failed"]
       /\ nEvents' = IF ok THEN nEvents ELSE nEvents + 1
  /\ UNCHANGED <<fs, closed, subAlive, chan, published, last>>

\* A startApolloServer that listens without waiting for connectNATS.
StartApolloServerUnconnected(n) ==
  /\ phase[n] \in {"starting", "subscribed"}
  /\ \E ok \in Outcomes :
       /\ phase' = [phase EXCEPT ![n] = IF ok THEN "serving" ELSE "broken"]
       /\ nEvents' = IF ok THEN nEvents ELSE nEvents + 1
  /\ UNCHANGED <<fs, closed, subAlive, chan, published, last>>

\* The rest of startApolloServer: loading the TLS material may throw, which
\* leaves the node subscribed but never listening.
StartApolloServer(n) ==
  /\ phase[n] = "subscribed"
  /\ \E ok \in Outcomes :
       /\ phase' = [phase EXCEPT ![n] = IF ok THEN "serving" ELSE "broken"]
       /\ nEvents' = IF ok THEN nEvents ELSE nEvents + 1
  /\ UNCHANGED <<fs, closed, subAlive, chan, published, last>>

\* One getOrder request on node n.  A fault of the file system is an input
\* only where the call it affects is made: a read fault when the file is
\* there to be read, a write fault when the request comes to write.
Lookup(n, orderId) ==
  /\ phase[n] = "serving"
  /\ nEvents < MaxEvents
  /\ nEvents' = nEvents + 1
  /\ \E rfault \in ReadFaults, wfault \in BOOLEAN :
       /\ rfault # "none" => FilePath(orderId) \in DOMAIN fs[n].files
       /\ \E r \in {GetOrder(fs[n], closed[n], orderId, rfault, wfault)} :
           /\ wfault => IsInPersist(r.steps)
           /\ fs' = [fs EXCEPT ![n] = r.fs]
           /\ chan' = FanOut(chan, n, r.sent)
           /\ published' = published \cup
                {<<n, PublishedFor(r.sent[i])>> : i \in 1..Len(r.sent)}
           /\ last' = [op |-> "lookup", seq |-> nEvents + 1, node |-> n,
                       orderId |-> orderId, closed |-> closed[n],
                       rfault |-> rfault, wfault |-> wfault,
                       cached |-> r.cached, ret |-> r.ret,
                       fetched |-> r.fetched, sent |-> r.sent,
                       steps |-> r.steps]
  /\ UNCHANGED <<phase, closed, subAlive>>

\* The bus delivers the oldest message of publisher p to node n's callback.
\* An exception that leaves the callback is outside this program's control:
\* the bus client may go on dispatching or may stop.  The write can fail
\* only when the payload was decoded and the write is made.
Deliver(n, p) ==
  /\ Subscribed(n)
  /\ chan[<<p, n>>] # <<>>
  /\ \E wok \in Outcomes, msg \in {Head(chan[<<p, n>>])} :
       \E r \in {OnMessage(fs[n], msg, ~wok)} :
           /\ ~wok => Parse(Decode(msg.data)).t # "error"
           /\ fs' = [fs EXCEPT ![n] = r.fs]
           /\ nEvents' = IF wok THEN nEvents ELSE nEvents + 1
           /\ last' = [op |-> "deliver", seq |-> nEvents, node |-> n,
                       from |-> p, msg |-> msg,
                       wfault |-> ~wok, orderId |-> r.orderId,
                       threw |-> r.threw]
           /\ IF r.threw
              THEN \E alive \in BOOLEAN :
                     subAlive' = [subAlive EXCEPT ![n] = alive]
              ELSE UNCHANGED subAlive
  /\ chan' = [chan EXCEPT ![<<p, n>>] = Tail(@)]
  /\ UNCHANGED <<phase, closed, published>>

\* A client that is not a node publishes on a subject of the wildcard (while
\* no node is subscribed such a message reaches nobody).
ForeignPublish(subject, payload) ==
  /\ nEvents < MaxEvents
  /\ \E n \in Nodes : Subscribed(n)
  /\ nEvents' = nEvents + 1
  /\ chan' = FanOut(chan, "ext", <<Msg(subject, Encode(payload))>>)
  /\ UNCHANGED <<phase, fs, closed, subAlive, published, last>>

\* The NATS connection of n closes; nothing more is delivered to n.
ConnectionClosed(n) ==
  /\ phase[n] \in {"subscribed", "serving", "broken"}
  /\ ~closed[n]
  /\ nEvents < MaxEvents
  /\ nEvents' = nEvents + 1
  /\ closed' = [closed EXCEPT ![n] = TRUE]
  /\ chan' = [c \in DOMAIN chan |-> IF c[2] = n THEN <<>> ELSE chan[c]]
  /\ UNCHANGED <<phase, fs, subAlive, published, last>>

Next ==
  \/ \E n \in Nodes : ConnectNATS(n)
  \/ \E n \in Nodes : StartApolloServer(n)
  \/ \E n \in Nodes, orderId \in OrderIds : Lookup(n, orderId)
  \/ \E n \in Nodes, p \in Publishers : Deliver(n, p)
  \/ \E subject \in ForeignSubjects, payload \in ForeignPayloads :
       ForeignPublish(subject, payload)
  \/ \E n \in Nodes : ConnectionClosed(n)

Spec == Init /\ [][Next]_vars

\* The closed system: the nodes are the only publishers on the bus.
NextClosed ==
  \/ \E n \in Nodes : ConnectNATS(n)
  \/ \E n \in Nodes : StartApolloServer(n)
  \/ \E n \in Nodes, orderId \in OrderIds : Lookup(n, orderId)
  \/ \E n \in Nodes, p \in Nodes : Deliver(n, p)
  \/ \E n \in Nodes : ConnectionClosed(n)

SpecClosed == Init /\ [][NextClosed]_vars

\* The closed system from the moment every node is subscribed and listening,
\* before anything was published, and with connections that stay open: only
\* lookups and deliveries happen.
InitServing ==
  /\ phase = [n \in Nodes |-> "serving"]
  /\ fs = [n \in Nodes |-> EmptyFs]
  /\ closed = [n \in Nodes |-> FALSE]
  /\ subAlive = [n \in Nodes |-> TRUE]
  /\ chan = [c \in Publishers \X Nodes |-> <<>>]
  /\ published = {}
  /\ nEvents = 0
  /\ last = [op |-> "none"]

NextServing ==
  \/ \E n \in Nodes, orderId \in OrderIds : Lookup(n, orderId)
  \/ \E n \in Nodes, p \in Nodes : Deliver(n, p)

SpecServing == InitServing /\ [][NextServing]_vars

\* ------------------------------------------------------- notions of claims
\* get(K) on node n: what readOrderFromFile returns when the file system
\* answers.
StoreGet(n, orderId) == ReadOrderFromFile(fs[n], orderId, "none").out

\* get returned a value: neither absent (null) nor a failure.
IsValue(v) == v.t \notin {"null", "error"}

\* All fields of an Order populated.
Complete(v) ==
  /\ v.t = "object"
  /\ \A f \in OrderFields : Get(v, f).t \notin {"undefined", "null"}

\* The step just taken is a getOrder request on node n for orderId
\* (last' describes it).
IsLookupStep(n, orderId) ==
  /\ nEvents' = nEvents + 1
  /\ last'.op = "lookup"
  /\ last'.seq = nEvents'
  /\ last'.node = n
  /\ last'.orderId = orderId

\* The step just taken delivered the oldest message of p to n's callback.
IsDeliverStep(n, p) ==
  /\ chan[<<p, n>>] # <<>>
  /\ chan'[<<p, n>>] = Tail(chan[<<p, n>>])
  /\ closed' = closed
  /\ last'.op = "deliver"
  /\ last'.node = n
  /\ last'.from = p
  /\ last'.msg = Head(chan[<<p, n>>])

\* ------------------------------------------------------------------ claims

\* C1 (cache precedence): whenever the read of a lookup returned a value, the
\* lookup returned exactly that value, consulted the database zero times,
\* wrote nothing and published nothing.
C1_CachePrecedence ==
  (last.op = "lookup" /\ IsValue(last.cached)) =>
    /\ last.ret = last.cached
    /\ last.fetched = 0
    /\ last.sent = <<>>
    /\ last.steps = <<"CHECK_LOCAL", "DONE">>

\* C2 (persist-before-publish): whenever node n has published a message for
\* orderId K, get(K) on n returns a value, never a miss.
C2_PersistBeforePublish ==
  \A pk \in published : IsValue(StoreGet(pk[1], pk[2]))

\* C3 (cache-forever): a lookup for K on a node whose store holds a value for
\* K returns the stored value and consults the database zero times (the
\* file-system calls of the lookup succeeding).
C3_CacheForever ==
  [][\A n \in Nodes, k \in OrderIds :
       (IsLookupStep(n, k) /\ last'.rfault = "none"
          /\ IsValue(StoreGet(n, k))) =>
         (last'.fetched = 0 /\ last'.ret = StoreGet(n, k))]_vars

\* C4 (bus propagation): once the callback of node n has handled a message
\* that another node published for K, get(K) on n returns the published value.
C4_BusPropagation ==
  [][\A n \in Nodes : \A p \in Nodes \ {n} :
       (IsDeliverStep(n, p) /\ ~last'.threw) =>
         ReadOrderFromFile(fs'[n], PublishedFor(last'.msg), "none").out
           = Parse(Decode(last'.msg.data))]_vars

\* C5 (isolation of bus errors): a delivered message that cannot be decoded
\* is dropped inside the callback: no exception leaves it and the
\* subscription goes on.
C5_IsolationOfBusErrors ==
  (last.op = "deliver" /\ Parse(Decode(last.msg.data)).t = "error") =>
    (~last.threw /\ subAlive[last.node])

\* C6 (Scenario C): a lookup whose store write fails returns an error and
\* publishes nothing: the bus and the publication history are as before.
C6_WriteFailureNoPublish ==
  [][\A n \in Nodes, k \in OrderIds :
       (IsLookupStep(n, k) /\ last'.wfault /\ IsInPersist(last'.steps)) =>
         /\ last'.ret.t = "error"
         /\ last'.sent = <<>>
         /\ chan' = chan
         /\ published' = published]_vars

\* A lookup reached PERSIST with a failing write: it returned an error.
C6_Witness ==
  /\ last.op = "lookup"
  /\ last.wfault
  /\ IsInPersist(last.steps)
  /\ last.ret.t = "error"
  /\ last.fetched = 1

\* C7 (publish failure contained): a lookup whose publish fails because the
\* connection is closed still returns the fetched order.
C7_PublishFailureContained ==
  (last.op = "lookup" /\ last.closed /\ IsInPublish(last.steps)) =>
    last.ret = OrderFromDB(last.orderId)

\* C8 (complete entity or error): every lookup returns an error or an order
\* with all fields populated.
C8_CompleteOrError ==
  (last.op = "lookup") => (last.ret.t = "error" \/ Complete(last.ret))

\* C10 (topic addressing): the callback files the payload under the orderId
\* the publisher embedded in the subject, everything behind cache.orders.
C10_TopicAddressing ==
  (last.op = "deliver" /\ ~last.threw) =>
    last.orderId = PublishedFor(last.msg)

\* C11 (own-publication tolerance): when the callback of node n has handled
\* the message n itself published for K, while n's store still held for K the
\* value n published, the store of n is as it was before: the value for K is
\* the same and no other entry was created or changed.
C11_OwnPublicationIdempotent ==
  [][\A n \in Nodes :
       (/\ IsDeliverStep(n, n)
        /\ ~last'.threw
        /\ StoreGet(n, PublishedFor(last'.msg))
             = Parse(Decode(last'.msg.data))) =>
         fs'[n].files = fs[n].files]_vars

\* The most recent step on node n was a getOrder request for orderId on n that
\* went all the way through the miss path, and nothing has happened on the
\* node since: a request for the same orderId that arrived together with it
\* runs next.
JustMissed(n, orderId) ==
  /\ last.op = "lookup"
  /\ last.seq = nEvents
  /\ last.node = n
  /\ last.orderId = orderId
  /\ last.steps = <<"CHECK_LOCAL", "FETCH_ORIGIN", "PERSIST", "PUBLISH",
                    "DONE">>

\* C12 as stated (no single-flight): of two getOrder requests for the same
\* uncached orderId that arrive together on one node, the second misses as
\* the first did: it consults the database and publishes a second message.
C12_BothMiss ==
  [][\A n \in Nodes, k \in OrderIds :
       (JustMissed(n, k) /\ IsLookupStep(n, k) /\ last'.rfault = "none") =>
         (last'.fetched = 1 /\ Len(last'.sent) = 1)]_vars

\* C12 (amended): the resolver runs to completion before the next request
\* starts, so of two getOrder requests for the same uncached orderId that
\* arrive together on one node the second finds the order the first stored:
\* it returns it, consults the database zero times and publishes nothing.
C12_SecondLookupHits ==
  [][\A n \in Nodes, k \in OrderIds :
       (JustMissed(n, k) /\ IsLookupStep(n, k) /\ last'.rfault = "none") =>
         /\ last'.ret = OrderFromDB(k)
         /\ last'.fetched = 0
         /\ last'.sent = <<>>
         /\ published' = published]_vars

\* The second of two requests for the same orderId on one node hit, the
\* message of the first still on its way to the node itself.
C12_Witness ==
  /\ last.op = "lookup"
  /\ last.seq = 2
  /\ nEvents = 2
  /\ last.rfault = "none"
  /\ last.fetched = 0
  /\ last.ret = OrderFromDB(last.orderId)
  /\ <<last.node, last.orderId>> \in published
  /\ Len(chan[<<last.node, last.node>>]) = 1

\* C13 (storage read failure): a lookup whose read of the record failed (the
\* file could not be accessed, or could not be read or decoded) returns an
\* error and stops at CHECK_LOCAL: it consults the database zero times, writes
\* nothing and publishes nothing.
C13_ReadFailureIsError ==
  (last.op = "lookup" /\ (last.rfault # "none" \/ last.cached.t = "error")) =>
    /\ last.ret.t = "error"
    /\ last.fetched = 0
    /\ last.sent = <<>>
    /\ last.steps = <<"CHECK_LOCAL">>

\* The files of node n other than the one of orderId are after the step what
\* they were before it.
OtherFilesUnchanged(n, orderId) ==
  /\ DOMAIN fs'[n].files \ {FilePath(orderId)}
       = DOMAIN fs[n].files \ {FilePath(orderId)}
  /\ \A f \in DOMAIN fs[n].files \ {FilePath(orderId)} :
       fs'[n].files[f] = fs[n].files[f]

\* C14 (last-writer-wins, full replacement): every write a lookup or a
\* delivery applies on node n to orderId K leaves n's store holding for K the
\* payload of that write in its entirety and every other entry as it was;
\* every other step leaves the store of n as it was.  So the store always
\* holds, per orderId, the payload of the write applied last.
C14_LastWriterWins ==
  [][\A n \in Nodes :
       IF \E k \in OrderIds :
            IsLookupStep(n, k) /\ IsInPersist(last'.steps) /\ ~last'.wfault
       THEN /\ ReadOrderFromFile(fs'[n], last'.orderId, "none").out
                 = OrderFromDB(last'.orderId)
            /\ OtherFilesUnchanged(n, last'.orderId)
       ELSE IF \E p \in Publishers : IsDeliverStep(n, p) /\ ~last'.threw
       THEN /\ ReadOrderFromFile(fs'[n], last'.orderId, "none").out
                 = Parse(Decode(last'.msg.data))
            /\ OtherFilesUnchanged(n, last'.orderId)
       ELSE fs'[n].files = fs[n].files]_vars

\* A delivery replaced the order a lookup had stored for "7" by the order
\* with only an id: none of the earlier fields is left.
C14_Witness ==
  /\ last.op = "deliver"
  /\ ~last.threw
  /\ last.from = "ext"
  /\ <<last.node, <<"7">>>> \in published
  /\ StoreGet(last.node, <<"7">>) = Obj(<<Prop("id", Str(<<"9">>))>>)

\* The two paths of a lookup.
HitPath == <<"CHECK_LOCAL", "DONE">>
MissPath == <<"CHECK_LOCAL", "FETCH_ORIGIN", "PERSIST", "PUBLISH", "DONE">>

\* C15 (two paths, termination): every getOrder request runs to its end in
\* the step that starts it, whatever is in flight on the bus, and ends in one
\* of three ways: it returns an order along the hit path (no fetch, no
\* write, no message); it returns an order along the miss path (one fetch,
\* the order stored, then one message); or it returns an error after a
\* proper prefix of one of the two paths, having published nothing.
C15_TwoPathsThenDone ==
  [][\A n \in Nodes, k \in OrderIds :
       IsLookupStep(n, k) =>
         \/ /\ last'.steps = HitPath
            /\ last'.ret.t = "object"
            /\ last'.fetched = 0
            /\ last'.sent = <<>>
            /\ fs'[n].files = fs[n].files
         \/ /\ last'.steps = MissPath
            /\ last'.ret.t = "object"
            /\ last'.fetched = 1
            /\ ReadOrderFromFile(fs'[n], k, "none").out = last'.ret
            /\ Len(last'.sent) = 1
         \/ /\ last'.ret.t = "error"
            /\ last'.sent = <<>>
            /\ \E i \in 1..4 :
                 /\ last'.steps = SubSeq(MissPath, 1, i)
                 /\ i # 2
                 /\ last'.fetched = IF i = 1 THEN 0 ELSE 1]_vars

\* A lookup went the whole miss path while a message of the foreign client
\* was waiting to be delivered to its node.
C15_Witness ==
  /\ last.op = "lookup"
  /\ last.seq = nEvents
  /\ last.steps = MissPath
  /\ last.ret = OrderFromDB(last.orderId)
  /\ chan[<<"ext", last.node>>] # <<>>

C17_StoredIdIsKey ==
  /\ \A n \in Nodes, k \in OrderIds :
       \E v \in {StoreGet(n, k)} :
         IsValue(v) => (v.t = "object" /\ Get(v, "id") = Str(k))
  /\ (last.op = "lookup" /\ last.ret.t = "object") =>
       Get(last.ret, "id") = Str(last.orderId)

\* Node p put nothing on the bus in the step: no channel from p grew and the
\* publication history of p is as before.
PublishedNothing(p) ==
  /\ \A n \in Nodes : Len(chan'[<<p, n>>]) <= Len(chan[<<p, n>>])
  /\ {pk \in published' : pk[1] = p} = {pk \in published : pk[1] = p}

\* C18 (no publication loop): in every step, node p puts a message on the bus
\* only as a getOrder request on p for some K that missed on K, consulted the
\* database once and stored the order under K, and then it puts exactly one
\* message, on cache.orders.K.  A delivery, a request that hit, and every
\* other step put nothing on the bus: per node, messages never outnumber the
\* lookups that missed, and with no lookups the messages in flight from the
\* nodes only decrease.
C18_NoPublicationLoop ==
  [][\A p \in Nodes :
       IF \E k \in OrderIds : IsLookupStep(p, k) /\ last'.sent # <<>>
       THEN /\ Len(last'.sent) = 1
            /\ last'.sent[1].subject = Subject(last'.orderId)
            /\ last'.cached.t # "error"
            /\ ~Truthy(last'.cached)
            /\ last'.fetched = 1
            /\ ~last'.wfault
            /\ ReadOrderFromFile(fs'[p], last'.orderId, "none").out
                 = OrderFromDB(last'.orderId)
            /\ \A n \in Nodes :
                 Len(chan'[<<p, n>>]) <= Len(chan[<<p, n>>]) + 1
       ELSE PublishedNothing(p)]_vars

\* The bus is quiet again: a message of a node was delivered by the callback
\* and nothing is in flight.
C18_Witness ==
  /\ last.op = "deliver"
  /\ ~last.threw
  /\ last.from \in Nodes
  /\ published # {}
  /\ \A c \in DOMAIN chan : chan[c] = <<>>

\* Lookups have stopped and every published message was delivered to every
\* node: nothing is in flight, every subscription is alive, and every event
\* so far was a lookup that published (none was a failed call).
AllDelivered ==
  /\ \A c \in DOMAIN chan : chan[c] = <<>>
  /\ \A n \in Nodes : Subscribed(n)
  /\ nEvents = Cardinality(published)

\* C19 (convergence, closed system, every node subscribed before the first
\* publish): once every published message was delivered to every node, all
\* nodes hold the same value for every orderId some node resolved.
C19_Convergence ==
  AllDelivered =>
    \A pk \in published : \A n1, n2 \in Nodes :
      StoreGet(n1, pk[2]) = StoreGet(n2, pk[2])

\* C20 (startup ordering): a node n comes to listen only from the phase in
\* which it is connected and subscribed, and comes to that phase only from
\* its start; a node whose connect failed stays failed.  Every getOrder
\* request on n runs while n is listening, and when it publishes, the
\* connection is open and the message goes to n's own subscription too
\* (as long as that subscription still dispatches).
C20_StartupOrdering ==
  [][\A n \in Nodes :
       /\ (phase'[n] = "serving") => (phase[n] \in {"subscribed", "serving"})
       /\ (phase'[n] = "subscribed") =>
            (phase[n] \in {"starting", "subscribed"})
       /\ (phase[n] = "failed") => (phase'[n] = "failed")
       /\ (\E k \in OrderIds : IsLookupStep(n, k)) =>
            /\ phase[n] = "serving"
            /\ (last'.sent # <<>>) =>
                 /\ ~closed[n]
                 /\ subAlive[n] =>
                      chan'[<<n, n>>] = chan[<<n, n>>] \o last'.sent]_vars

\* Node B failed to connect and serves nothing; node A, connected and
\* subscribed, published in a lookup and its own message is on its way to it.
C20_Witness ==
  /\ phase["B"] = "failed"
  /\ last.op = "lookup"
  /\ last.node = "A"
  /\ Len(last.sent) = 1
  /\ chan[<<"A", "A">>] = last.sent
  /\ \A k \in OrderIds : <<"B", k>> \notin published

\* --------------------------------------------- the Local Store on its own
\* writeOrderToFile and readOrderFromFile called directly, as put and get of
\* the Local Store, on one node's cache directory, with orders drawn from
\* ValidOrders.  `last.puts` remembers, per orderId, the value of the latest
\* successful put.
MaxStoreOps == 3

StoreNode == "A"

StoreKeys == {<<"7">>, <<"7", "1">>}

ValidOrders ==
  {Obj(<<Prop("id", Str(<<"7">>)), Prop("customer", customer),
         Prop("product", product), Prop("quantity", Num(quantity)),
         Prop("status", Str(<<"shipped">>))>>) :
     customer \in {Str(<<"John Doe">>), Null},
     product \in {Str(<<"Laptop">>), Undefined},
     quantity \in {0, 2}}

InitStore ==
  /\ phase = [n \in Nodes |-> "starting"]
  /\ fs = [n \in Nodes |-> EmptyFs]
  /\ closed = [n \in Nodes |-> FALSE]
  /\ subAlive = [n \in Nodes |-> TRUE]
  /\ chan = [c \in Publishers \X Nodes |-> <<>>]
  /\ published = {}
  /\ nEvents = 0
  /\ last = [op |-> "none", puts |-> [k \in StoreKeys |-> Undefined]]

StorePut(orderId, data) ==
  /\ nEvents < MaxStoreOps
  /\ nEvents' = nEvents + 1
  /\ \E fault \in BOOLEAN :
       \E wr \in {WriteOrderToFile(fs[StoreNode], orderId, data, fault)} :
         /\ fs' = [fs EXCEPT ![StoreNode] = wr.fs]
         /\ last' = [op |-> "put", orderId |-> orderId, data |-> data,
                     threw |-> wr.threw,
                     puts |-> IF wr.threw THEN last.puts
                              ELSE [last.puts EXCEPT ![orderId] = data]]
  /\ UNCHANGED <<phase, closed, subAlive, chan, published>>

StoreRead(orderId) ==
  /\ nEvents < MaxStoreOps
  /\ nEvents' = nEvents + 1
  /\ \E fault \in ReadFaults :
       \E rd \in {ReadOrderFromFile(fs[StoreNode], orderId, fault)} :
         /\ fs' = [fs EXCEPT ![StoreNode] = rd.fs]
         /\ last' = [op |-> "get", orderId |-> orderId, fault |-> fault,
                     out |-> rd.out, puts |-> last.puts]
  /\ UNCHANGED <<phase, closed, subAlive, chan, published>>

NextStore ==
  \/ \E orderId \in StoreKeys, data \in ValidOrders : StorePut(orderId, data)
  \/ \E orderId \in StoreKeys : StoreRead(orderId)

SpecStore == InitStore /\ [][NextStore]_vars

\* C9 (round-trip): a get whose file-system calls succeed returns, for an
\* orderId that was put before, a value equal in every field to the value of
\* the latest successful put to that orderId.
C9_RoundTrip ==
  (last.op = "get" /\ last.fault = "none"
     /\ last.puts[last.orderId].t # "undefined") =>
    /\ last.out.t = "object"
    /\ \A f \in OrderFields :
         Get(last.out, f) = Get(last.puts[last.orderId], f)

\* A get returned an order that an earlier put had stored, after a second
\* put had replaced a first one.
C9_Witness ==
  /\ last.op = "get"
  /\ last.fault = "none"
  /\ last.puts[last.orderId].t = "object"
  /\ last.out.t = "object"
  /\ Get(last.out, "customer").t = "null"
  /\ nEvents = 3

====
